---- MODULE Spec2Model ----
(***************************************************************************)
(* Model of src/src/main.ts: the strobe-capture page.  One reducer-owned   *)
(* AppState, a camera acquired through getUserMedia, a phase sequencer     *)
(* driven by setInterval, and the frame-read loop of run().                *)
(*                                                                         *)
(* The page is single-threaded: every action below is one browser task     *)
(* together with the microtasks it queues (promise continuations run       *)
(* before the next task).                                                  *)
(***************************************************************************)
EXTENDS Integers, Sequences, FiniteSets, TLC

VARIABLES
    state,          \* let state: AppState
    patternInput,   \* dom.patternInput.value
    hasGUM,         \* navigator.mediaDevices?.getUserMedia exists
    hasProcessor,   \* window.MediaStreamTrackProcessor exists
    stream,         \* let stream: TRUE when a MediaStream is held
    streamInit,     \* let streamInit: "null", "pending" or "settled" promise
    gumInFlight,    \* getUserMedia calls not yet settled
    pc,             \* position of the activation of run()
    pattern,        \* pattern closed over by startIllumination
    index,          \* let index
    intervalId,     \* let intervalId: "null" or "id"
    timerActive,    \* the browser still holds the interval timer
    stopCalled,     \* createOnce flag of stopIllumination
    cleanupCalled,  \* createOnce flag of cleanup
    readerCancelled,\* reader.cancel() was called
    unloadListener, \* cleanup is registered for beforeunload
    emitted,        \* history: values passed to onPhase by this sequencer
    trail,          \* history: error / run-complete events since begin-run
    phases,         \* history: phase-changed events since begin-run
    lastFrame,      \* history: the frame reader.read() returned last
    rendered,       \* history: what render() showed during this task
    lastOp          \* history: the task that produced this state

vars == <<state, patternInput, hasGUM, hasProcessor, stream, streamInit,
          gumInFlight, pc, pattern, index, intervalId, timerActive,
          stopCalled, cleanupCalled, readerCancelled, unloadListener,
          emitted, trail, phases, lastFrame, rendered, lastOp>>

TARGET_LENGTH == 20

\* bound on the error events recorded at rest (repeated incomplete starts)
MaxTrail == 3
\* bound on the pattern lengths of the sequencer taken alone
MaxPatternLen == 4
\* bound on the thumbnails the user clicks: the first MaxSelect ones
MaxSelect == 2

NoSelection == -1

Max(a, b) == IF a >= b THEN a ELSE b
Min(a, b) == IF a <= b THEN a ELSE b

Status(text, n) == [text |-> text, n |-> n]

\* lastFrame before the reader of a run returned any frame
NoFrame == [returned |-> FALSE, closes |-> 0, closedInLoop |-> FALSE]

----------------------------------------------------------------------------
\* The whole program state as one record, so that synchronous call chains
\* compose as functions World -> World.

World ==
    [state |-> state, patternInput |-> patternInput, hasGUM |-> hasGUM,
     hasProcessor |-> hasProcessor, stream |-> stream,
     streamInit |-> streamInit, gumInFlight |-> gumInFlight, pc |-> pc,
     pattern |-> pattern, index |-> index, intervalId |-> intervalId,
     timerActive |-> timerActive, stopCalled |-> stopCalled,
     cleanupCalled |-> cleanupCalled, readerCancelled |-> readerCancelled,
     unloadListener |-> unloadListener, emitted |-> emitted, trail |-> trail,
     phases |-> phases, lastFrame |-> lastFrame, rendered |-> {}]

Becomes(w, op) ==
    /\ state' = w.state
    /\ patternInput' = w.patternInput
    /\ hasGUM' = w.hasGUM
    /\ hasProcessor' = w.hasProcessor
    /\ stream' = w.stream
    /\ streamInit' = w.streamInit
    /\ gumInFlight' = w.gumInFlight
    /\ pc' = w.pc
    /\ pattern' = w.pattern
    /\ index' = w.index
    /\ intervalId' = w.intervalId
    /\ timerActive' = w.timerActive
    /\ stopCalled' = w.stopCalled
    /\ cleanupCalled' = w.cleanupCalled
    /\ readerCancelled' = w.readerCancelled
    /\ unloadListener' = w.unloadListener
    /\ emitted' = w.emitted
    /\ trail' = w.trail
    /\ phases' = w.phases
    /\ lastFrame' = w.lastFrame
    /\ rendered' = w.rendered
    /\ lastOp' = op

----------------------------------------------------------------------------
\* parsePatternInput

ToUpperCase(c) ==
    CASE c = "b" -> "B"
      [] c = "w" -> "W"
      [] c = "x" -> "X"
      [] OTHER -> c

IsBW(c) == c \in {"B", "W"}

Slice(s, n) == SubSeq(s, 1, Min(Len(s), n))

parsePatternInput(value, limit) ==
    LET upper == [i \in 1..Len(value) |-> ToUpperCase(value[i])]
        text == Slice(SelectSeq(upper, IsBW), limit)
        sequence == [i \in 1..Len(text) |-> text[i] = "W"]
    IN  [text |-> text, sequence |-> sequence,
         isComplete |-> Len(sequence) = limit]

----------------------------------------------------------------------------
\* reduce

initialState ==
    [phaseIsWhite |-> FALSE,
     status |-> Status("Enter pattern to begin", TARGET_LENGTH),
     error |-> "",
     pendingCaptures |-> 0,
     captures |-> <<>>,
     captureComplete |-> FALSE,
     patternString |-> <<>>,
     isRunning |-> FALSE,
     selectedCaptureIndex |-> NoSelection]

ProgressStatus(n) ==
    IF n >= TARGET_LENGTH THEN Status("Capture complete", 0)
    ELSE Status("Capturing", n)

reducePatternChanged(current, event) ==
    IF current.isRunning
    THEN [current EXCEPT !.patternString = event.value]
    ELSE LET remaining == TARGET_LENGTH - Len(event.value)
         IN  [current EXCEPT
                !.patternString = event.value,
                !.error = "",
                !.status = IF remaining > 0 THEN Status("Add more", remaining)
                           ELSE Status("Pattern ready", 0)]

\* mutant: begin-run that keeps the previous selection
reduceBeginRunKeepsSelection(current, event) ==
    [current EXCEPT
        !.phaseIsWhite = FALSE,
        !.status = Status("Preparing capture", 0),
        !.error = "",
        !.pendingCaptures = 0,
        !.captures = <<>>,
        !.captureComplete = FALSE,
        !.isRunning = TRUE,
        !.patternString = event.patternString]

reduceBeginRun(current, event) ==
    [current EXCEPT
        !.phaseIsWhite = FALSE,
        !.status = Status("Preparing capture", 0),
        !.error = "",
        !.pendingCaptures = 0,
        !.captures = <<>>,
        !.captureComplete = FALSE,
        !.isRunning = TRUE,
        !.patternString = event.patternString,
        !.selectedCaptureIndex = NoSelection]

\* mutant: the budget clamp is one too tight
reducePhaseChangedTightBudget(current, event) ==
    LET remainingBudget == TARGET_LENGTH - Len(current.captures) - 1
        pending == Max(0, Min(current.pendingCaptures + 1, remainingBudget))
    IN  [current EXCEPT
            !.pendingCaptures = pending,
            !.phaseIsWhite = event.isWhite,
            !.status = ProgressStatus(Len(current.captures))]

reducePhaseChanged(current, event) ==
    LET remainingBudget == TARGET_LENGTH - Len(current.captures)
        pending == Max(0, Min(current.pendingCaptures + 1, remainingBudget))
    IN  [current EXCEPT
            !.pendingCaptures = pending,
            !.phaseIsWhite = event.isWhite,
            !.status = ProgressStatus(Len(current.captures))]

\* mutant: the completion test is off by one
reduceFrameCapturedLateDone(current, event) ==
    LET captures == Append(current.captures, event.dataUrl)
        done == Len(captures) > TARGET_LENGTH
    IN  [current EXCEPT
            !.captures = captures,
            !.pendingCaptures = Max(0, current.pendingCaptures - 1),
            !.status = ProgressStatus(Len(captures)),
            !.captureComplete = done,
            !.selectedCaptureIndex =
                IF current.selectedCaptureIndex = NoSelection THEN 0
                ELSE current.selectedCaptureIndex]

\* mutant: frame-captured that forgets to settle the pending obligation
reduceFrameCapturedKeepsPending(current, event) ==
    LET captures == Append(current.captures, event.dataUrl)
        done == Len(captures) >= TARGET_LENGTH
    IN  [current EXCEPT
            !.captures = captures,
            !.status = ProgressStatus(Len(captures)),
            !.captureComplete = done,
            !.selectedCaptureIndex =
                IF current.selectedCaptureIndex = NoSelection THEN 0
                ELSE current.selectedCaptureIndex]

reduceFrameCaptured(current, event) ==
    LET captures == Append(current.captures, event.dataUrl)
        done == Len(captures) >= TARGET_LENGTH
    IN  [current EXCEPT
            !.captures = captures,
            !.pendingCaptures = Max(0, current.pendingCaptures - 1),
            !.status = ProgressStatus(Len(captures)),
            !.captureComplete = done,
            !.selectedCaptureIndex =
                IF current.selectedCaptureIndex = NoSelection THEN 0
                ELSE current.selectedCaptureIndex]

reduceStreamStarted(current, event) ==
    [current EXCEPT !.status = Status("Streaming", 0), !.error = ""]

reduceError(current, event) ==
    [current EXCEPT
        !.error = event.message,
        !.status = IF event.status = "undefined" THEN Status("Error", 0)
                   ELSE Status(event.status, 0),
        !.isRunning = FALSE]

\* mutant: run-complete that also drops the captures
reduceRunCompleteClears(current, event) ==
    [current EXCEPT !.isRunning = FALSE, !.phaseIsWhite = FALSE,
                    !.captures = <<>>]

reduceRunComplete(current, event) ==
    [current EXCEPT !.isRunning = FALSE, !.phaseIsWhite = FALSE]

reduceSelectCapture(current, event) ==
    [current EXCEPT !.selectedCaptureIndex = event.index]

reduce(current, event) ==
    CASE event.type = "pattern-changed" -> reducePatternChanged(current, event)
      [] event.type = "begin-run" -> reduceBeginRun(current, event)
      [] event.type = "phase-changed" -> reducePhaseChanged(current, event)
      [] event.type = "frame-captured" -> reduceFrameCaptured(current, event)
      [] event.type = "stream-started" -> reduceStreamStarted(current, event)
      [] event.type = "error" -> reduceError(current, event)
      [] event.type = "run-complete" -> reduceRunComplete(current, event)
      [] event.type = "select-capture" -> reduceSelectCapture(current, event)
      [] OTHER -> current

\* what render() shows of a state: the theme follows phaseIsWhite, the
\* controls follow isRunning
Shown(st) == [isRunning |-> st.isRunning, phaseIsWhite |-> st.phaseIsWhite]

\* render: the part that writes program-visible state (the input mirrors
\* state.patternString); rendered records what it showed
render(w) ==
    [w EXCEPT !.patternInput = w.state.patternString,
              !.rendered = @ \cup {Shown(w.state)}]

\* the events the history variable trail records
Trailed(event) ==
    IF event.type = "begin-run" THEN "reset"
    ELSE IF event.type \in {"error", "run-complete"} THEN "append"
    ELSE "skip"

dispatch(w, event) ==
    render([w EXCEPT
        !.state = reduce(w.state, event),
        !.trail = CASE Trailed(event) = "reset" -> <<>>
                    [] Trailed(event) = "append" -> Append(@, event.type)
                    [] OTHER -> @,
        !.phases = CASE event.type = "begin-run" -> 0
                     [] event.type = "phase-changed" -> @ + 1
                     [] OTHER -> @])

ErrorEvent(message, status) ==
    [type |-> "error", message |-> message, status |-> status]

----------------------------------------------------------------------------
\* createOnce: `ran` is the world after the wrapped function ran with the
\* flag already set; a second call returns without running it.

\* mutant: a wrapper that never looks at its flag
createOnceAlways(called, w, ran) == ran

createOnce(called, w, ran) == IF called THEN w ELSE ran

----------------------------------------------------------------------------
\* startIllumination

\* the onPhase callback run() passes: dispatch phase-changed
onPhase(w, isWhite) ==
    dispatch([w EXCEPT !.emitted = Append(@, isWhite)],
             [type |-> "phase-changed", isWhite |-> isWhite])

clearInterval(w) == [w EXCEPT !.timerActive = FALSE]

\* mutant: the self-termination test after the emission is off by one
emitStepLateStop(w) ==
    IF w.index >= Len(w.pattern)
    THEN IF w.intervalId # "null"
         THEN [clearInterval(w) EXCEPT !.intervalId = "null"]
         ELSE w
    ELSE LET w1 == onPhase(w, w.pattern[w.index + 1])
             w2 == [w1 EXCEPT !.index = @ + 1]
         IN  IF w2.index > Len(w2.pattern) /\ w2.intervalId # "null"
             THEN [clearInterval(w2) EXCEPT !.intervalId = "null"]
             ELSE w2

emitStep(w) ==
    IF w.index >= Len(w.pattern)
    THEN IF w.intervalId # "null"
         THEN [clearInterval(w) EXCEPT !.intervalId = "null"]
         ELSE w
    ELSE LET w1 == onPhase(w, w.pattern[w.index + 1])
             w2 == [w1 EXCEPT !.index = @ + 1]
         IN  IF w2.index >= Len(w2.pattern) /\ w2.intervalId # "null"
             THEN [clearInterval(w2) EXCEPT !.intervalId = "null"]
             ELSE w2

startIllumination(w, p) ==
    LET fresh == [w EXCEPT !.pattern = p, !.index = 0, !.intervalId = "null",
                           !.timerActive = FALSE, !.stopCalled = FALSE,
                           !.emitted = <<>>]
    IN  IF Len(p) = 0 THEN fresh
        ELSE emitStep([fresh EXCEPT !.intervalId = "id", !.timerActive = TRUE])

stopIlluminationBody(w) ==
    IF Len(w.pattern) = 0 THEN w
    ELSE IF w.intervalId # "null" THEN clearInterval(w) ELSE w

stopIllumination(w) ==
    createOnce(w.stopCalled, w,
               stopIlluminationBody([w EXCEPT !.stopCalled = TRUE]))

----------------------------------------------------------------------------
\* cleanup (the closure created in run)

\* mutant: a cleanup that forgets the sequencer
cleanupBodyKeepsTimer(w) ==
    LET w2 == [w EXCEPT !.readerCancelled = TRUE]
        w3 == [w2 EXCEPT !.unloadListener = FALSE]
    IN  dispatch(w3, [type |-> "run-complete"])

cleanupBody(w) ==
    LET w1 == stopIllumination(w)
        w2 == [w1 EXCEPT !.readerCancelled = TRUE]
        w3 == [w2 EXCEPT !.unloadListener = FALSE]
    IN  dispatch(w3, [type |-> "run-complete"])

cleanup(w) ==
    createOnce(w.cleanupCalled, w,
               cleanupBody([w EXCEPT !.cleanupCalled = TRUE]))

----------------------------------------------------------------------------
\* initCamera

\* mutant: initCamera without the streamInit test
initCameraNoCoalesce(w) ==
    IF w.stream THEN w
    ELSE IF ~w.hasGUM
         THEN [dispatch(w, ErrorEvent("Webcam APIs unavailable in this browser.",
                                      "Webcam unavailable"))
                 EXCEPT !.streamInit = "settled"]
         ELSE [w EXCEPT !.gumInFlight = @ + 1, !.streamInit = "pending"]

\* the synchronous part of a call of initCamera(): the promise it returns is
\* the one streamInit names afterwards (or the held stream)
initCamera(w) ==
    IF w.stream THEN w
    ELSE IF w.streamInit # "null" THEN w
    ELSE IF ~w.hasGUM
         THEN \* returns null before the try: its finally never resets
              \* streamInit, which is then assigned the settled promise
              [dispatch(w, ErrorEvent("Webcam APIs unavailable in this browser.",
                                      "Webcam unavailable"))
                 EXCEPT !.streamInit = "settled"]
         ELSE [w EXCEPT !.gumInFlight = @ + 1, !.streamInit = "pending"]

\* getUserMedia resolved: the rest of the try block and the finally
initCameraResolved(w) ==
    LET w1 == [w EXCEPT !.gumInFlight = @ - 1, !.stream = TRUE]
        w2 == dispatch(w1, [type |-> "stream-started"])
        w3 == render(w2)
    IN  [w3 EXCEPT !.streamInit = "null"]

\* getUserMedia rejected: the catch block and the finally
initCameraRejected(w) ==
    LET w1 == [w EXCEPT !.gumInFlight = @ - 1]
        w2 == dispatch(w1, ErrorEvent("Camera permission denied.",
                                      "Permission required"))
    IN  [w2 EXCEPT !.streamInit = "null"]

----------------------------------------------------------------------------
\* run

\* if (!activeStream) { dispatch run-complete; return }
runNoStream(w) ==
    [dispatch(w, [type |-> "run-complete"]) EXCEPT !.pc = "returnNoStream"]

\* mutant: the sequencer is started before the Processor check
runWithStreamEarlyStart(w, p) ==
    LET s1 == startIllumination(w, p)
    IN  IF ~w.hasProcessor
        THEN LET w1 == dispatch(s1, ErrorEvent("WebCodecs not supported in this browser.",
                                               "WebCodecs unavailable"))
                 w2 == dispatch(w1, [type |-> "run-complete"])
             IN  [w2 EXCEPT !.pc = "returnNoProcessor"]
        ELSE [s1 EXCEPT !.readerCancelled = FALSE, !.lastFrame = NoFrame,
                        !.cleanupCalled = FALSE, !.unloadListener = TRUE,
                        !.pc = "awaitRead"]

\* from the Processor check to the first await of reader.read()
runWithStream(w, p) ==
    IF ~w.hasProcessor
    THEN LET w1 == dispatch(w, ErrorEvent("WebCodecs not supported in this browser.",
                                          "WebCodecs unavailable"))
             w2 == dispatch(w1, [type |-> "run-complete"])
         IN  [w2 EXCEPT !.pc = "returnNoProcessor"]
    ELSE LET w1 == [w EXCEPT !.readerCancelled = FALSE, !.lastFrame = NoFrame]
             w2 == startIllumination(w1, p)
             w3 == [w2 EXCEPT !.cleanupCalled = FALSE, !.unloadListener = TRUE]
         IN  [w3 EXCEPT !.pc = "awaitRead"]

\* run(pattern) up to its first suspension
run(w, p) ==
    IF w.stream THEN runWithStream(w, p)
    ELSE LET w1 == initCamera(w)
         IN  IF w1.streamInit = "pending"
             THEN [w1 EXCEPT !.pc = "awaitCamera", !.pattern = p]
             ELSE runNoStream(w1)

\* mutant: the capture test ignores pendingCaptures
frameBodyIgnoresPending(w, frame) ==
    IF frame.fault = "draw" THEN [w |-> w, threw |-> TRUE]
    ELSE IF Len(w.state.captures) < TARGET_LENGTH
         THEN IF frame.fault = "encode" THEN [w |-> w, threw |-> TRUE]
              ELSE LET w1 == dispatch(w, [type |-> "frame-captured",
                                          dataUrl |-> frame.image])
                   IN  [w |-> IF Len(w1.state.captures) >= TARGET_LENGTH
                              THEN stopIllumination(w1) ELSE w1,
                        threw |-> FALSE]
         ELSE [w |-> w, threw |-> FALSE]

\* mutant: the loop cancels the sequencer at the first capture
frameBodyStopsEarly(w, frame) ==
    IF frame.fault = "draw" THEN [w |-> w, threw |-> TRUE]
    ELSE IF w.state.pendingCaptures > 0
            /\ Len(w.state.captures) < TARGET_LENGTH
         THEN IF frame.fault = "encode" THEN [w |-> w, threw |-> TRUE]
              ELSE LET w1 == dispatch(w, [type |-> "frame-captured",
                                          dataUrl |-> frame.image])
                   IN  [w |-> IF Len(w1.state.captures) >= 1
                              THEN stopIllumination(w1) ELSE w1,
                        threw |-> FALSE]
         ELSE [w |-> w, threw |-> FALSE]

\* mutant: the loop does not cancel the sequencer at the target
frameBodyNoStop(w, frame) ==
    IF frame.fault = "draw" THEN [w |-> w, threw |-> TRUE]
    ELSE IF w.state.pendingCaptures > 0
            /\ Len(w.state.captures) < TARGET_LENGTH
         THEN IF frame.fault = "encode" THEN [w |-> w, threw |-> TRUE]
              ELSE [w |-> dispatch(w, [type |-> "frame-captured",
                                       dataUrl |-> frame.image]),
                    threw |-> FALSE]
         ELSE [w |-> w, threw |-> FALSE]

\* the inner try of the loop body; threw tells whether it raised
frameBody(w, frame) ==
    IF frame.fault = "draw" THEN [w |-> w, threw |-> TRUE]
    ELSE IF w.state.pendingCaptures > 0
            /\ Len(w.state.captures) < TARGET_LENGTH
         THEN IF frame.fault = "encode" THEN [w |-> w, threw |-> TRUE]
              ELSE LET w1 == dispatch(w, [type |-> "frame-captured",
                                          dataUrl |-> frame.image])
                   IN  [w |-> IF Len(w1.state.captures) >= TARGET_LENGTH
                              THEN stopIllumination(w1) ELSE w1,
                        threw |-> FALSE]
         ELSE [w |-> w, threw |-> FALSE]

\* mutant: run returns without its finally
loopFinallyNoCleanup(w) == [w EXCEPT !.pc = "returned"]

\* finally { cleanup() } and the return of run
loopFinally(w) == [cleanup(w) EXCEPT !.pc = "returned"]

\* mutant: the catch reports the error and run returns without cleanup
loopCatchNoFinally(w) ==
    [dispatch(w, ErrorEvent("Rendering stopped.", "undefined"))
        EXCEPT !.pc = "returned"]

\* catch (error) { dispatch error 'Rendering stopped.' } finally { ... }
loopCatch(w) ==
    loopFinally(dispatch(w, ErrorEvent("Rendering stopped.", "undefined")))

\* reader.read() returned a frame: nothing has closed it yet
returnedFrame(w) ==
    [w EXCEPT !.lastFrame = [returned |-> TRUE, closes |-> 0,
                             closedInLoop |-> FALSE]]

\* frame.close(); closedInLoop tells whether the loop was still running
closeFrame(w) ==
    [w EXCEPT !.lastFrame.closes = @ + 1,
              !.lastFrame.closedInLoop = (w.pc = "awaitRead" /\ ~w.cleanupCalled)]

\* mutant: an inner catch swallows the frame's failure
readFrameContained(w, frame) ==
    closeFrame(frameBody(returnedFrame(w), frame).w)

\* mutant: frame.close() after the inner try instead of in its finally
readFrameCloseAfterTry(w, frame) ==
    LET r == frameBody(returnedFrame(w), frame)
    IN  IF r.threw THEN loopCatch(r.w) ELSE closeFrame(r.w)

\* one iteration after reader.read() delivered a frame
readFrame(w, frame) ==
    LET r == frameBody(returnedFrame(w), frame)
        closed == closeFrame(r.w)
    IN  IF r.threw THEN loopCatch(closed) ELSE closed

\* what the frame's iteration did, for the history variable
FrameOutcome(w, frame) ==
    IF frameBody(w, frame).threw THEN "frameThrew"
    ELSE IF Len(frameBody(w, frame).w.state.captures) > Len(w.state.captures)
         THEN "frameCaptured" ELSE "frameDiscarded"

----------------------------------------------------------------------------
\* startFromControls

startFromControls(w) ==
    IF w.state.isRunning THEN w
    ELSE LET parsed == parsePatternInput(w.patternInput, TARGET_LENGTH)
             w1 == [w EXCEPT !.patternInput = parsed.text]
         IN  IF ~parsed.isComplete
             THEN dispatch(w1, ErrorEvent("Enter exactly TARGET_LENGTH characters using only B and W.",
                                          "Pattern incomplete"))
             ELSE LET w2 == IF parsed.text # w1.state.patternString
                            THEN dispatch(w1, [type |-> "pattern-changed",
                                               value |-> parsed.text])
                            ELSE w1
                      w3 == dispatch(w2, [type |-> "begin-run",
                                          patternString |-> parsed.text])
                  IN  run(w3, parsed.sequence)

\* the input listener of dom.patternInput
onInput(w, raw) ==
    IF w.state.isRunning THEN w
    ELSE LET parsed == parsePatternInput(raw, TARGET_LENGTH)
             w1 == [w EXCEPT !.patternInput = parsed.text]
         IN  IF parsed.text # w1.state.patternString
             THEN dispatch(w1, [type |-> "pattern-changed", value |-> parsed.text])
             ELSE w1

----------------------------------------------------------------------------
\* Inputs

Rep(c, n) == [i \in 1..n |-> c]
Alt(a, b, n) == [i \in 1..n |-> IF i % 2 = 1 THEN a ELSE b]

\* texts the user leaves in the pattern field (maxLength = TARGET_LENGTH)
RawInputs ==
    { <<>>,
      <<"b", "W">>,
      Alt("b", "w", TARGET_LENGTH),
      Rep("W", TARGET_LENGTH),
      Alt("B", "x", TARGET_LENGTH) }

Images == {"png"}
Frames == [image : Images, fault : {"none", "draw", "encode"}]

----------------------------------------------------------------------------
\* The page after the script ran: render(state); initCamera()

Loaded(gum, proc) ==
    initCamera(render(
        [state |-> initialState, patternInput |-> <<>>, hasGUM |-> gum,
         hasProcessor |-> proc, stream |-> FALSE, streamInit |-> "null",
         gumInFlight |-> 0, pc |-> "none", pattern |-> <<>>, index |-> 0,
         intervalId |-> "null", timerActive |-> FALSE, stopCalled |-> FALSE,
         cleanupCalled |-> FALSE, readerCancelled |-> FALSE,
         unloadListener |-> FALSE, emitted |-> <<>>, trail |-> <<>>,
         phases |-> 0, lastFrame |-> NoFrame, rendered |-> {}]))

Init ==
    \E gum \in BOOLEAN, proc \in BOOLEAN :
        LET w == Loaded(gum, proc)
        IN  /\ state = w.state
            /\ patternInput = w.patternInput
            /\ hasGUM = w.hasGUM
            /\ hasProcessor = w.hasProcessor
            /\ stream = w.stream
            /\ streamInit = w.streamInit
            /\ gumInFlight = w.gumInFlight
            /\ pc = w.pc
            /\ pattern = w.pattern
            /\ index = w.index
            /\ intervalId = w.intervalId
            /\ timerActive = w.timerActive
            /\ stopCalled = w.stopCalled
            /\ cleanupCalled = w.cleanupCalled
            /\ readerCancelled = w.readerCancelled
            /\ unloadListener = w.unloadListener
            /\ emitted = w.emitted
            /\ trail = w.trail
            /\ phases = w.phases
            /\ lastFrame = w.lastFrame
            /\ rendered = w.rendered
            /\ lastOp = "load"

----------------------------------------------------------------------------
\* Tasks

\* the user edits the pattern field (disabled while a run is on)
InputEvent ==
    \E raw \in RawInputs :
        /\ ~state.isRunning
        /\ Becomes(onInput(World, raw), "input")

\* Enter in the pattern field, or a click on the start button
StartFromControls ==
    /\ ~state.isRunning
    /\ parsePatternInput(patternInput, TARGET_LENGTH).isComplete
          \/ Len(trail) < MaxTrail
    /\ Becomes(startFromControls(World), "start")

\* a click on a rendered thumbnail
SelectCapture ==
    \E i \in 0..(Min(Len(state.captures), MaxSelect) - 1) :
        /\ i # state.selectedCaptureIndex
        /\ Becomes(dispatch(World, [type |-> "select-capture", index |-> i]),
                   "select")

\* getUserMedia resolves; a run awaiting initCamera() goes on
GumResolves ==
    /\ gumInFlight > 0
    /\ LET w == initCameraResolved(World)
       IN  Becomes(IF w.pc = "awaitCamera" THEN runWithStream(w, w.pattern)
                   ELSE w,
                   "gumResolved")

\* getUserMedia rejects; a run awaiting initCamera() gets null
GumRejects ==
    /\ gumInFlight > 0
    /\ LET w == initCameraRejected(World)
       IN  Becomes(IF w.pc = "awaitCamera" THEN runNoStream(w) ELSE w,
                   "gumRejected")

\* the interval timer fires
TimerFires ==
    /\ timerActive
    /\ Becomes(emitStep(World), "timer")

\* reader.read() resolves with a frame
FrameArrives ==
    \E frame \in Frames :
        /\ pc = "awaitRead"
        /\ Becomes(readFrame(World, frame), FrameOutcome(World, frame))

\* reader.read() resolves with done
StreamEnds ==
    /\ pc = "awaitRead"
    /\ Becomes(loopFinally(World), "readDone")

\* reader.read() rejects
ReadFails ==
    /\ pc = "awaitRead"
    /\ Becomes(loopCatch(World), "readRejected")

\* beforeunload runs cleanup; reader.cancel() settles the pending read with
\* done, so the loop breaks and its finally calls cleanup again
BeforeUnload ==
    /\ unloadListener
    /\ Becomes(loopFinally(cleanup(World)), "beforeunload")

Next ==
    \/ InputEvent
    \/ StartFromControls
    \/ SelectCapture
    \/ GumResolves
    \/ GumRejects
    \/ TimerFires
    \/ FrameArrives
    \/ StreamEnds
    \/ ReadFails
    \/ BeforeUnload

Spec == Init /\ [][Next]_vars

\* reader.read() keeps delivering frames whose drawing and encoding succeed
HealthyFrame ==
    \E frame \in Frames :
        /\ frame.fault = "none"
        /\ pc = "awaitRead"
        /\ Becomes(readFrame(World, frame), FrameOutcome(World, frame))

\* The interval timer fires while it is scheduled and the camera keeps
\* delivering frames while the loop reads; nothing obliges the stream to end,
\* a read to fail, the page to unload or the user to act.
FairSpec == Spec /\ WF_vars(TimerFires) /\ WF_vars(HealthyFrame)

----------------------------------------------------------------------------
\* Shorthands for the properties

RunCompleteCount == Cardinality({i \in 1..Len(trail) : trail[i] = "run-complete"})

TargetReached == Len(state.captures) = TARGET_LENGTH

----------------------------------------------------------------------------
\* C1: once captures.length reaches TARGET_LENGTH during a run, the read loop
\* terminates and cleanup runs: run-complete is eventually dispatched and
\* isRunning becomes false, even though frames keep arriving and the stream
\* never ends.
C1_LoopEndsAtTarget ==
    (TargetReached /\ pc = "awaitRead")
        ~> (pc = "returned" /\ RunCompleteCount = 1 /\ ~state.isRunning)

----------------------------------------------------------------------------
\* C2: in every reachable state 0 <= pendingCaptures <=
\* TARGET_LENGTH - captures.length, so captures.length never exceeds
\* TARGET_LENGTH.
C2_PendingWithinBudget ==
    /\ 0 <= state.pendingCaptures
    /\ state.pendingCaptures <= TARGET_LENGTH - Len(state.captures)
    /\ Len(state.captures) <= TARGET_LENGTH

\* frames owed up to the whole remaining budget, some captures already taken
C2_Witness ==
    /\ Len(state.captures) > 0
    /\ state.pendingCaptures > 0
    /\ state.pendingCaptures = TARGET_LENGTH - Len(state.captures)

----------------------------------------------------------------------------
\* C3: with the timer firing and frames arriving, and no error, end of stream
\* or unload taking the run out of its read loop, a run that entered the loop
\* reaches exactly TARGET_LENGTH captures with captureComplete true and
\* pendingCaptures 0.
RunComplete ==
    /\ Len(state.captures) = TARGET_LENGTH
    /\ state.captureComplete
    /\ state.pendingCaptures = 0

C3_RunReachesTarget == (pc = "awaitRead") ~> (RunComplete \/ pc # "awaitRead")

C3_Witness == pc = "awaitRead" /\ RunComplete /\ lastOp = "frameCaptured"

----------------------------------------------------------------------------
----------------------------------------------------------------------------
\* C5: a run attempt that cannot acquire the camera (getUserMedia missing or
\* rejected, also after an earlier failed attempt) shows the reducer an error
\* and then run-complete, and ends with isRunning false, an error message and
\* no capture.
C5_NoSourceReportsError ==
    (pc = "returnNoStream" /\ lastOp \in {"start", "gumRejected"}) =>
        /\ trail = <<"error", "run-complete">>
        /\ ~state.isRunning
        /\ state.error # ""
        /\ state.captures = <<>>

----------------------------------------------------------------------------
\* C6: when the stream signals end-of-data after k < TARGET_LENGTH captures,
\* the loop exits with the k captures, no error event is dispatched, the
\* sequencer is cancelled and cleanup dispatches run-complete once, leaving
\* isRunning false.
C6_EndOfStream ==
    [][(lastOp' = "readDone" /\ Len(state.captures) < TARGET_LENGTH) =>
          /\ pc = "awaitRead" /\ pc' = "returned"
          /\ state'.captures = state.captures
          /\ trail = <<>> /\ trail' = <<"run-complete">>
          /\ state'.error = ""
          /\ stopCalled' /\ ~timerActive'
          /\ ~state'.isRunning]_vars

C6_Witness ==
    /\ lastOp = "readDone"
    /\ Len(state.captures) = 5
    /\ index < Len(pattern)

----------------------------------------------------------------------------
\* C7: when reader.read() rejects, one error event is dispatched and then
\* run-complete through cleanup; afterwards isRunning is false, the timer is
\* not scheduled, the reader is cancelled, and once run() has returned no
\* timer tick and no frame of that run is handled any more.
C7_ReadFailure ==
    /\ [][lastOp' = "readRejected" =>
             /\ pc = "awaitRead" /\ pc' = "returned"
             /\ trail = <<>> /\ trail' = <<"error", "run-complete">>
             /\ ~state'.isRunning
             /\ ~timerActive'
             /\ readerCancelled']_vars
    /\ [][pc = "returned" =>
             lastOp' \notin {"timer", "frameCaptured", "frameDiscarded",
                             "frameThrew"}]_vars

C7_Witness ==
    /\ lastOp = "readRejected"
    /\ index < Len(pattern)
    /\ Len(state.captures) > 0

----------------------------------------------------------------------------
\* C8: when captures.length reaches TARGET_LENGTH the sequencer is cancelled
\* at once (the cancellation handle has been called, no timer is scheduled),
\* and no phase-changed event is dispatched while the captures stay complete.
C8_SequencerCancelledAtTarget ==
    /\ [](TargetReached => (stopCalled /\ ~timerActive))
    /\ [][(TargetReached /\ Len(state'.captures) = TARGET_LENGTH) =>
             (emitted' = emitted /\ lastOp' # "timer")]_vars

C8_Witness == TargetReached /\ lastOp = "frameCaptured" /\ pc = "awaitRead"

----------------------------------------------------------------------------
\* C9: cleanup and the sequencer's cancellation handle are idempotent: a
\* second invocation changes nothing, so run-complete is dispatched at most
\* once per run however often cleanup is called (beforeunload calls it, then
\* the loop's finally calls it again), and cancelling a sequencer that has
\* stopped by itself changes nothing but the handle's own flag.
C9_Idempotent ==
    /\ RunCompleteCount <= 1
    /\ pc \in {"awaitRead", "returned"} =>
          /\ cleanup(cleanup(World)) = cleanup(World)
          /\ stopIllumination(stopIllumination(World)) = stopIllumination(World)
          /\ loopFinally(cleanup(World)) = loopFinally(World)
          /\ index >= Len(pattern) =>
                stopIllumination(World) = [World EXCEPT !.stopCalled = TRUE]

\* beforeunload ran cleanup and the loop's finally ran it again, after the
\* loop had already cancelled the sequencer at the target
C9_Witness ==
    /\ lastOp = "beforeunload"
    /\ TargetReached
    /\ trail = <<"run-complete">>

----------------------------------------------------------------------------
\* The sequencer taken alone: startIllumination on any pattern of length
\* 0..MaxPatternLen, its timer, and its cancellation handle.

Patterns == UNION {[1..n -> BOOLEAN] : n \in 0..MaxPatternLen}

SeqInit ==
    \E p \in Patterns :
        LET w == Loaded(TRUE, TRUE)
        IN  /\ state = w.state
            /\ patternInput = w.patternInput
            /\ hasGUM = w.hasGUM
            /\ hasProcessor = w.hasProcessor
            /\ stream = w.stream
            /\ streamInit = w.streamInit
            /\ gumInFlight = w.gumInFlight
            /\ pc = w.pc
            /\ pattern = p
            /\ index = w.index
            /\ intervalId = w.intervalId
            /\ timerActive = w.timerActive
            /\ stopCalled = w.stopCalled
            /\ cleanupCalled = w.cleanupCalled
            /\ readerCancelled = w.readerCancelled
            /\ unloadListener = w.unloadListener
            /\ emitted = w.emitted
            /\ trail = w.trail
            /\ phases = w.phases
            /\ lastFrame = w.lastFrame
            /\ rendered = w.rendered
            /\ lastOp = "load"

SeqStart ==
    /\ pc = "none"
    /\ Becomes([startIllumination(World, pattern) EXCEPT !.pc = "sequencer"],
               "seqStart")

SeqCancel ==
    /\ pc = "sequencer"
    /\ Becomes(stopIllumination(World), "seqCancel")

SeqNext == SeqStart \/ TimerFires \/ SeqCancel

SeqSpec == SeqInit /\ [][SeqNext]_vars

\* C10: a sequencer started on a pattern of length n emits the pattern in
\* index order, the first value synchronously at start, one value per tick;
\* after the n-th it has no timer scheduled; cancelled after k emissions it
\* has emitted exactly the prefix of length k and emits nothing more; an
\* empty pattern emits nothing.
C10_SequencerOrder ==
    /\ [](pc = "sequencer" =>
            /\ index <= Len(pattern)
            /\ emitted = SubSeq(pattern, 1, index)
            /\ Len(pattern) > 0 => index >= 1
            /\ index = Len(pattern) => ~timerActive
            /\ timerActive => ~stopCalled)
    /\ [][lastOp' = "timer" =>
             /\ index < Len(pattern)
             /\ index' = index + 1
             /\ emitted' = Append(emitted, pattern[index + 1])]_vars
    /\ [][stopCalled => emitted' = emitted]_vars

\* cancelled after two of three emissions
C10_Witness ==
    /\ pc = "sequencer"
    /\ stopCalled
    /\ index = 2
    /\ Len(pattern) = 3
    /\ lastOp = "seqCancel"

----------------------------------------------------------------------------
\* C11: in every reachable state captures.length + pendingCaptures equals
\* the number of phase-changed events dispatched since begin-run: each tick
\* creates one obligation, the budget clamp drops none, none is captured
\* twice.
C11_ObligationsAccounted ==
    Len(state.captures) + state.pendingCaptures = phases

\* every tick of the run has been dispatched before the first frame arrived
C11_Witness ==
    /\ phases = TARGET_LENGTH
    /\ state.pendingCaptures = TARGET_LENGTH
    /\ pc = "awaitRead"

----------------------------------------------------------------------------
----------------------------------------------------------------------------
\* C13: selectedCaptureIndex is null exactly when captures is empty and is
\* otherwise an index into captures; the first frame-captured of a run sets
\* it to 0, and it stays 0 until a select-capture (or the next begin-run)
\* replaces it.
Selected == state.selectedCaptureIndex

C13_SelectionValid ==
    /\ []((Selected = NoSelection) <=> (state.captures = <<>>))
    /\ [](Selected # NoSelection =>
             (0 <= Selected /\ Selected < Len(state.captures)))
    /\ [][(lastOp' = "frameCaptured" /\ state.captures = <<>>) =>
             state'.selectedCaptureIndex = 0]_vars
    /\ [][(Selected = 0 /\ lastOp' \notin {"select", "start"}) =>
             state'.selectedCaptureIndex = 0]_vars

\* the user picked the second thumbnail while the run was still capturing
C13_Witness ==
    /\ Selected = 1
    /\ lastOp = "frameCaptured"
    /\ Len(state.captures) > 2

----------------------------------------------------------------------------
\* C14: a run that cannot acquire the camera, or finds no
\* MediaStreamTrackProcessor, never starts the sequencer: between begin-run
\* and run-complete no phase-changed is dispatched, pendingCaptures stays 0
\* and no timer is scheduled.
C14_FailFastNoSequencer ==
    pc \in {"awaitCamera", "returnNoStream", "returnNoProcessor"} =>
        /\ phases = 0
        /\ state.pendingCaptures = 0
        /\ ~timerActive

\* the camera arrived for a waiting run and the Processor is missing
C14_Witness ==
    /\ pc = "returnNoProcessor"
    /\ lastOp = "gumResolved"
    /\ trail = <<"error", "run-complete">>

----------------------------------------------------------------------------
\* C15: at most one getUserMedia call is in flight: a call of initCamera
\* while one is in flight, or while a stream is held, issues none and
\* returns the promise or stream already there.
C15_SingleAcquisition ==
    /\ gumInFlight <= 1
    /\ gumInFlight = 1 <=> streamInit = "pending"
    /\ stream => gumInFlight = 0
    /\ (stream \/ streamInit = "pending") =>
          initCamera(World).gumInFlight = gumInFlight

\* a run started while an acquisition is in flight and waits for it
C15_Witness ==
    /\ pc = "awaitCamera"
    /\ lastOp = "start"
    /\ gumInFlight = 1

----------------------------------------------------------------------------
FrameOps == {"frameCaptured", "frameDiscarded", "frameThrew"}

\* pendingCaptures > 0 and captures.length < TARGET_LENGTH
Owed == state.pendingCaptures > 0 /\ Len(state.captures) < TARGET_LENGTH

----------------------------------------------------------------------------
\* C17: every frame the reader returned has been closed exactly once, and
\* while the loop was still running (before the next read is issued and
\* before the catch and cleanup of a loop exit), whether the frame was
\* captured, discarded, or its processing threw.
C17_FrameClosedOnce ==
    /\ lastOp \in FrameOps => lastFrame.returned
    /\ lastFrame.returned =>
          (lastFrame.closes = 1 /\ lastFrame.closedInLoop)

\* the frame whose encoding threw was closed before the run ended
C17_Witness ==
    /\ lastOp = "frameThrew"
    /\ lastFrame.closes = 1
    /\ state.pendingCaptures > 0
    /\ pc = "returned"

----------------------------------------------------------------------------
\* C18: in every reachable state captureComplete is true if and only if
\* captures.length equals TARGET_LENGTH.
C18_CompleteIffTarget ==
    state.captureComplete <=> (Len(state.captures) = TARGET_LENGTH)

\* a complete run has ended and its gallery is at rest
C18_Witness ==
    /\ state.captureComplete
    /\ ~state.isRunning
    /\ lastOp = "readDone"

----------------------------------------------------------------------------
\* C19: at most one run is live: whenever isRunning is false no sequencer
\* timer is scheduled and no activation of run() waits for the camera or
\* for a frame; startFromControls does nothing while isRunning is true, and
\* a start happens only in a state with no live timer or loop, so a new run
\* never shares the state with the timer or the read loop of an earlier one.
RunLive == timerActive \/ pc \in {"awaitCamera", "awaitRead"}

C19_OneRunLive ==
    /\ [](~state.isRunning => ~RunLive)
    /\ [](state.isRunning => startFromControls(World) = World)
    /\ [][lastOp' = "start" => (~state.isRunning /\ ~RunLive)]_vars

\* unload ended a run in mid-sequence: its timer had to be cancelled
C19_Witness ==
    /\ lastOp = "beforeunload"
    /\ ~state.isRunning
    /\ index < Len(pattern)
    /\ Len(state.captures) > 0

----------------------------------------------------------------------------
\* C20: in every rendered state, also the one an error event produces, if
\* isRunning is false then phaseIsWhite is false.
C20_RestPhaseDark ==
    \A r \in rendered \cup {Shown(state)} :
        ~r.isRunning => ~r.phaseIsWhite

====
